---- MODULE Spec2Model ----
(***************************************************************************)
(* FoxP2P (src/lib/index.ts): the Host and Client session controllers.     *)
(* A Host opens a relay socket, creates a room and registers every guest   *)
(* whose peer handshake connects; a Client opens a relay socket, offers a  *)
(* peer handshake, applies the relayed answer and waits for the peer       *)
(* channel under a timeout.  Every handler of the two classes is one       *)
(* action; the relay and the peer transport are the environment that fires *)
(* the events the handlers are registered for.                             *)
(***************************************************************************)
EXTENDS Integers, Sequences, FiniteSets, TLC

\* ------------------------------------------------------------------ bounds
\* The sockets a Host opens, the guest handshakes it creates, the peer
\* channels that close, the sends it makes and the messages it receives,
\* all together, in one run; likewise for the handshakes, sends and inbound
\* messages of a Client.
MaxHostWork == 4
MaxClientWork == 4

\* ------------------------------------------------------------- input sets
Rooms == {"ABC123", "XYZ789"}
ClientIds == {"guest1", "guest2"}
Offers == {"O1"}
Answers == {"A1", "A2"}
Messages == {"m1", "m2"}
GuestCallbacks == {"onGuestA"}
HostMessageCallbacks == {"onMessageA"}
ClientMessageCallbacks == {"onMessageA", "onMessageB"}

\* A field that was never assigned (undefined) and a promise not yet resolved.
Undefined == "undefined"
Unresolved == "unresolved"

\* ---------------------------------------------------- signaling envelopes
Envelope(t, room, offer, client, answer) ==
    [type |-> t, room |-> room, offer |-> offer, client |-> client, answer |-> answer]

\* What the relay may put on a socket: the four responses, a request kind
\* echoed back, and a discriminant nobody knows.
RelayEnvelopes ==
    {Envelope("RoomCreated", r, "", "", "") : r \in Rooms}
    \cup {Envelope("GuestRequest", "", o, c, "") : o \in Offers, c \in ClientIds}
    \cup {Envelope("RoomJoined", "", "", "", a) : a \in Answers}
    \cup {Envelope("RequestAccepted", "", "", "", ""),
          Envelope("JoinRoom", "ABC123", "O1", "", ""),
          Envelope("Bogus", "", "", "", "")}

\* new CreateRoomRequest(), as the Host sends it.
RoomCreate == [type |-> "RoomCreate", client |-> "", answer |-> 0]

\* JSON.stringify and the UTF-8 decoder, on the payloads the model sends.
Stringify(m) == <<"json", m>>
Utf8Encode(text) == <<"utf8", text>>
Utf8Decode(bytes) == bytes[2]

VARIABLES
    role,            \* the controller this program constructed: "host" or "client"
    \* Host
    hSockets,        \* every Socket createRoom opened; this.socket is the last
    roomCreated,     \* ManagedPromise<string>: Unresolved or the room
    handshakes,      \* every Peer registerGuest created, in creation order
    connections,     \* Map<string, Instance> in insertion order: <<id, peer>>
    guestJoinedCallback,
    hOnMessageReceived,
    hostOut,         \* envelopes the Host handed to socket.send
    hReceived,       \* invocations of the Host's message callback
    hLog,            \* observations: first RoomCreated, inbound count, sends
    \* Client
    cSocket, roomJoined, cPeers, cOnMessageReceived, cMicrotasks,
    cOut, cReceived, cLog,
    \* what the handler or call that ran last threw ("none": it returned)
    thrown

hostVars == <<hSockets, roomCreated, handshakes, connections, guestJoinedCallback,
              hOnMessageReceived, hostOut, hReceived, hLog>>
clientVars == <<cSocket, roomJoined, cPeers, cOnMessageReceived, cMicrotasks,
                cOut, cReceived, cLog>>
vars == <<role, hostVars, clientVars, thrown>>

\* The roles under which each controller's handlers run: a program holds a
\* Host or a Client; "pair" is a Host program and a Client program with the
\* relay and the peer transport between them.
HostRoles == {"host", "pair"}
ClientRoles == {"client", "pair"}

\* ------------------------------------------------- external collaborators
\* simple-peer's send: the channel takes data once connected and throws
\* on a handle that is not (yet, or no longer) connected.
PeerSendThrows(st) == st # "connected"

\* simple-websocket's send: needs an open socket.
SocketSendOk(st) == st = "open"

\* EventEmitter.on: a listener that is not a function is a TypeError.
EmitterOnThrows(listener) == listener = Undefined

\* ----------------------------------------------------- ManagedPromise
\* resolve(value): settles an unresolved promise; a settled one keeps its
\* value, whether the second resolve is refused or silently dropped.
ManagedResolve(p, value) == IF p = Unresolved THEN value ELSE p

\* ------------------------------------------------------------------ Host
CurrentSocket == Len(hSockets)

Closed == {h \in 1..Len(handshakes) : handshakes[h].st = "closed"}

HostWork ==
    Len(hSockets) + Len(handshakes) + Cardinality(Closed) + hLog.sends + Len(hReceived)

Answer(h) == h

Mut_HostRoomCreated(p, env) == env.room

\* case SignalResponses.RoomCreated
HostRoomCreated(p, env) == ManagedResolve(p, env.room)

HostInit ==
    /\ hSockets = <<>>
    /\ roomCreated = Unresolved
    /\ handshakes = <<>>
    /\ connections = <<>>
    /\ guestJoinedCallback = Undefined
    /\ hOnMessageReceived = Undefined
    /\ hostOut = {}
    /\ hReceived = <<>>
    /\ hLog = [firstRoom |-> Unresolved, lastRoom |-> Unresolved, sends |-> 0]

Mut_CreateRoom ==
    /\ role \in HostRoles
    /\ HostWork < MaxHostWork
    /\ hSockets' = Append(hSockets, "connecting")
    /\ hostOut' = hostOut \cup {RoomCreate}
    /\ thrown' = "none"
    /\ UNCHANGED <<roomCreated, handshakes, connections, guestJoinedCallback,
                   hOnMessageReceived, hReceived, hLog>>
    /\ UNCHANGED <<role, clientVars>>

\* createRoom(): a new Socket with the data and connect handlers on it.
CreateRoom ==
    /\ role \in HostRoles
    /\ HostWork < MaxHostWork
    /\ hSockets' = Append(hSockets, "connecting")
    /\ thrown' = "none"
    /\ UNCHANGED <<roomCreated, handshakes, connections, guestJoinedCallback,
                   hOnMessageReceived, hostOut, hReceived, hLog>>
    /\ UNCHANGED <<role, clientVars>>

\* The connect handler of socket s: sends CreateRoomRequest on this.socket.
HostSocketConnect(s) ==
    /\ role \in HostRoles
    /\ hSockets[s] = "connecting"
    /\ hSockets' = [hSockets EXCEPT ![s] = "open"]
    /\ LET ok == SocketSendOk(hSockets'[CurrentSocket])
       IN /\ hostOut' = hostOut \cup
                {RoomCreate}
          /\ thrown' = IF ok THEN "none" ELSE "SocketError"
    /\ UNCHANGED <<roomCreated, handshakes, connections, guestJoinedCallback,
                   hOnMessageReceived, hReceived, hLog>>
    /\ UNCHANGED <<role, clientVars>>

\* registerGuest(request): a non-initiating Peer fed the guest's offer.
RegisterGuest(request) ==
    Append(handshakes,
           [client |-> request.client, offer |-> request.offer, st |-> "new",
            hasData |-> FALSE, joined |-> <<>>, sent |-> <<>>])

\* The cases of the Host's switch on decoded.type; anything else is the
\* default, which throws.
Mut_HostHandles(type) == TRUE

HostHandles(type) == type \in {"RoomCreated", "GuestRequest", "RequestAccepted"}

\* The data handler of socket s.
HostOnData(s, env) ==
    /\ role \in HostRoles
    /\ hSockets[s] = "open"
    /\ env.type = "GuestRequest" => HostWork < MaxHostWork
    /\ roomCreated' = IF env.type = "RoomCreated"
                      THEN HostRoomCreated(roomCreated, env) ELSE roomCreated
    /\ handshakes' = IF env.type = "GuestRequest"
                     THEN RegisterGuest(env) ELSE handshakes
    /\ hLog' = IF env.type = "RoomCreated"
               THEN [hLog EXCEPT !.firstRoom = IF @ = Unresolved THEN env.room ELSE @,
                                 !.lastRoom = env.room]
               ELSE hLog
    /\ thrown' = IF HostHandles(env.type) THEN "none" ELSE "ProtocolError"
    /\ UNCHANGED <<hSockets, connections, guestJoinedCallback, hOnMessageReceived,
                   hostOut, hReceived>>
    /\ UNCHANGED <<role, clientVars>>

Mut_CloseRoom ==
    /\ role \in HostRoles
    /\ IF CurrentSocket = 0
       THEN /\ thrown' = "TypeError"
            /\ UNCHANGED <<hSockets, connections>>
       ELSE /\ hSockets' = [hSockets EXCEPT ![CurrentSocket] = "destroyed"]
            /\ connections' = <<>>
            /\ thrown' = "none"
    /\ UNCHANGED <<roomCreated, handshakes, guestJoinedCallback,
                   hOnMessageReceived, hostOut, hReceived, hLog>>
    /\ UNCHANGED <<role, clientVars>>

\* closeRoom(): this.socket.destroy().
CloseRoom ==
    /\ role \in HostRoles
    /\ IF CurrentSocket = 0
       THEN /\ thrown' = "TypeError"
            /\ UNCHANGED hSockets
       ELSE /\ hSockets' = [hSockets EXCEPT ![CurrentSocket] = "destroyed"]
            /\ thrown' = "none"
    /\ UNCHANGED <<roomCreated, handshakes, connections, guestJoinedCallback,
                   hOnMessageReceived, hostOut, hReceived, hLog>>
    /\ UNCHANGED <<role, clientVars>>

\* listenForGuests(cb)
ListenForGuests(cb) ==
    /\ role \in HostRoles
    /\ guestJoinedCallback' = cb
    /\ thrown' = "none"
    /\ UNCHANGED <<hSockets, roomCreated, handshakes, connections,
                   hOnMessageReceived, hostOut, hReceived, hLog>>
    /\ UNCHANGED <<role, clientVars>>

\* listenForMessages(cb)
HostListenForMessages(cb) ==
    /\ role \in HostRoles
    /\ hOnMessageReceived' = cb
    /\ thrown' = "none"
    /\ UNCHANGED <<hSockets, roomCreated, handshakes, connections,
                   guestJoinedCallback, hostOut, hReceived, hLog>>
    /\ UNCHANGED <<role, clientVars>>

\* The signal handler of handshake h: AddToRoomRequest{answer, client} on
\* this.socket, with the client of the request the handler closed over.
Mut_AddToRoom(h) ==
    [type |-> "AddToRoom", client |-> handshakes[Len(handshakes)].client,
     answer |-> Answer(h)]

AddToRoom(h) ==
    [type |-> "AddToRoom", client |-> handshakes[h].client,
     answer |-> Answer(h)]

HostPeerSignal(h) ==
    /\ role \in HostRoles
    /\ handshakes[h].st = "new"
    /\ handshakes' = [handshakes EXCEPT ![h].st = "signaled"]
    /\ hostOut' = hostOut \cup {AddToRoom(h)}
    /\ thrown' = IF SocketSendOk(hSockets[CurrentSocket]) THEN "none" ELSE "SocketError"
    /\ UNCHANGED <<hSockets, roomCreated, connections, guestJoinedCallback,
                   hOnMessageReceived, hReceived, hLog>>
    /\ UNCHANGED <<role, clientVars>>

\* Map.has / Map.get / Map.set on the insertion-ordered registry.
MapHas(m, id) == \E i \in 1..Len(m) : m[i].id = id
MapGet(m, id) == m[CHOOSE i \in 1..Len(m) : m[i].id = id].peer
Mut_MapSet(m, id, peer) == Append(m, [id |-> id, peer |-> peer])
MapSet(m, id, peer) ==
    IF MapHas(m, id)
    THEN [i \in 1..Len(m) |-> IF m[i].id = id THEN [id |-> id, peer |-> peer] ELSE m[i]]
    ELSE Append(m, [id |-> id, peer |-> peer])
MapKeys(m) == {m[i].id : i \in 1..Len(m)}

\* The connect handler of handshake h (lines 82-89): register, announce,
\* attach the data handler.  Calling an undefined callback is a TypeError
\* that ends the handler there.
Mut_GuestConnected(hs, conns, cb, h) ==
    LET client == hs[h].client
    IN IF cb = Undefined
       THEN [handshakes |-> [hs EXCEPT ![h].st = "connected"],
             connections |-> conns, thrown |-> "TypeError"]
       ELSE [handshakes |-> [hs EXCEPT ![h].st = "connected", ![h].hasData = TRUE,
                                       ![h].joined = Append(@,
                                           [cb |-> cb, client |-> client,
                                            registered |-> MapHas(conns, client)])],
             connections |-> MapSet(conns, client, h), thrown |-> "none"]

Mut_GuestConnectedNewest(hs, conns, cb, h) ==
    LET client == hs[h].client
        registry == MapSet(conns, client, Len(hs))
    IN IF cb = Undefined
       THEN [handshakes |-> [hs EXCEPT ![h].st = "connected"],
             connections |-> registry, thrown |-> "TypeError"]
       ELSE [handshakes |-> [hs EXCEPT ![h].st = "connected", ![h].hasData = TRUE,
                                       ![h].joined = Append(@,
                                           [cb |-> cb, client |-> client,
                                            registered |-> MapHas(registry, client)])],
             connections |-> registry, thrown |-> "none"]

GuestConnected(hs, conns, cb, h) ==
    LET client == hs[h].client
        registry == MapSet(conns, client, h)
    IN IF cb = Undefined
       THEN [handshakes |-> [hs EXCEPT ![h].st = "connected"],
             connections |-> registry, thrown |-> "TypeError"]
       ELSE [handshakes |-> [hs EXCEPT ![h].st = "connected", ![h].hasData = TRUE,
                                       ![h].joined = Append(@,
                                           [cb |-> cb, client |-> client,
                                            registered |-> MapHas(registry, client)])],
             connections |-> registry, thrown |-> "none"]

HostPeerConnect(h) ==
    /\ role \in HostRoles
    /\ handshakes[h].st = "signaled"
    /\ LET r == GuestConnected(handshakes, connections, guestJoinedCallback, h)
       IN /\ handshakes' = r.handshakes
          /\ connections' = r.connections
          /\ thrown' = r.thrown
    /\ UNCHANGED <<hSockets, roomCreated, guestJoinedCallback, hOnMessageReceived,
                   hostOut, hReceived, hLog>>
    /\ UNCHANGED <<role, clientVars>>

Mut_HostPeerClose(h) ==
    /\ role \in HostRoles
    /\ handshakes[h].st = "connected"
    /\ HostWork < MaxHostWork
    /\ handshakes' = [handshakes EXCEPT ![h].st = "closed"]
    /\ connections' = SelectSeq(connections, LAMBDA e : e.peer # h)
    /\ thrown' = "none"
    /\ UNCHANGED <<hSockets, roomCreated, guestJoinedCallback,
                   hOnMessageReceived, hostOut, hReceived, hLog>>
    /\ UNCHANGED <<role, clientVars>>

\* The peer channel of handshake h goes away; the Host listens for nothing.
HostPeerClose(h) ==
    /\ role \in HostRoles
    /\ handshakes[h].st = "connected"
    /\ HostWork < MaxHostWork
    /\ handshakes' = [handshakes EXCEPT ![h].st = "closed"]
    /\ thrown' = "none"
    /\ UNCHANGED <<hSockets, roomCreated, connections, guestJoinedCallback,
                   hOnMessageReceived, hostOut, hReceived, hLog>>
    /\ UNCHANGED <<role, clientVars>>

\* Data arrives on handshake h: the handler of lines 85-88, when attached,
\* decodes it and calls this.onMessageReceived.
HostPeerData(h, m) ==
    /\ role \in HostRoles
    /\ handshakes[h].st = "connected"
    /\ HostWork < MaxHostWork
    /\ LET decoded == Utf8Decode(Utf8Encode(Stringify(m)))
           deliver == handshakes[h].hasData /\ hOnMessageReceived # Undefined
       IN /\ hReceived' = IF deliver
                          THEN Append(hReceived, [cb |-> hOnMessageReceived,
                                                  message |-> decoded, from |-> h])
                          ELSE hReceived
          /\ thrown' = IF handshakes[h].hasData /\ hOnMessageReceived = Undefined
                       THEN "TypeError" ELSE "none"
    /\ UNCHANGED <<hSockets, roomCreated, handshakes, connections,
                   guestJoinedCallback, hOnMessageReceived, hostOut, hLog>>
    /\ UNCHANGED <<role, clientVars>>

\* peer.send(JSON.stringify(message)) on handle h.
PeerSend(hs, h, m) == [hs EXCEPT ![h].sent = Append(@, Stringify(m))]

\* sendTo(clientId, message)
Mut_SendToResult(hs, conns, id, m) ==
    IF Len(conns) = 0
    THEN [handshakes |-> hs, thrown |-> "UnknownClient"]
    ELSE LET h == IF MapHas(conns, id) THEN MapGet(conns, id) ELSE conns[1].peer
         IN IF PeerSendThrows(hs[h].st)
            THEN [handshakes |-> hs, thrown |-> "PeerError"]
            ELSE [handshakes |-> PeerSend(hs, h, m), thrown |-> "none"]

SendToResult(hs, conns, id, m) ==
    IF ~MapHas(conns, id)
    THEN [handshakes |-> hs, thrown |-> "UnknownClient"]
    ELSE LET h == MapGet(conns, id)
         IN IF PeerSendThrows(hs[h].st)
            THEN [handshakes |-> hs, thrown |-> "PeerError"]
            ELSE [handshakes |-> PeerSend(hs, h, m), thrown |-> "none"]

SendTo(id, m) ==
    /\ role \in HostRoles
    /\ HostWork < MaxHostWork
    /\ LET r == SendToResult(handshakes, connections, id, m)
       IN /\ handshakes' = r.handshakes
          /\ hLog' = IF r.handshakes # handshakes
                     THEN [hLog EXCEPT !.sends = @ + 1] ELSE hLog
          /\ thrown' = r.thrown
    /\ UNCHANGED <<hSockets, roomCreated, connections, guestJoinedCallback,
                   hOnMessageReceived, hostOut, hReceived>>
    /\ UNCHANGED <<role, clientVars>>

\* sendToAll(message): connections.forEach in insertion order; a send that
\* throws ends the loop.
RECURSIVE SendEach(_, _, _, _)
SendEach(hs, conns, i, m) ==
    IF i > Len(conns)
    THEN [handshakes |-> hs, thrown |-> "none"]
    ELSE IF PeerSendThrows(hs[conns[i].peer].st)
         THEN [handshakes |-> hs, thrown |-> "PeerError"]
         ELSE SendEach(PeerSend(hs, conns[i].peer, m), conns, i + 1, m)

Mut_SendToAllResult(hs, conns, m) ==
    IF Len(conns) = 0 THEN [handshakes |-> hs, thrown |-> "none"]
    ELSE SendEach(hs, SubSeq(conns, 1, 1), 1, m)

SendToAllResult(hs, conns, m) == SendEach(hs, conns, 1, m)

SendToAll(m) ==
    /\ role \in HostRoles
    /\ HostWork < MaxHostWork
    /\ LET r == SendToAllResult(handshakes, connections, m)
       IN /\ handshakes' = r.handshakes
          /\ hLog' = IF r.handshakes # handshakes
                     THEN [hLog EXCEPT !.sends = @ + 1] ELSE hLog
          /\ thrown' = r.thrown
    /\ UNCHANGED <<hSockets, roomCreated, connections, guestJoinedCallback,
                   hOnMessageReceived, hostOut, hReceived>>
    /\ UNCHANGED <<role, clientVars>>

HostNext ==
    \/ CreateRoom
    \/ CloseRoom
    \/ \E s \in 1..Len(hSockets) : HostSocketConnect(s)
    \/ \E s \in 1..Len(hSockets), env \in RelayEnvelopes : HostOnData(s, env)
    \/ \E cb \in GuestCallbacks : ListenForGuests(cb)
    \/ \E cb \in HostMessageCallbacks : HostListenForMessages(cb)
    \/ \E h \in 1..Len(handshakes) : HostPeerSignal(h)
    \/ \E h \in 1..Len(handshakes) : HostPeerConnect(h)
    \/ \E h \in 1..Len(handshakes) : HostPeerClose(h)
    \/ \E h \in 1..Len(handshakes), m \in Messages : HostPeerData(h, m)
    \/ \E id \in ClientIds, m \in Messages : SendTo(id, m)
    \/ \E m \in Messages : SendToAll(m)

\* ---------------------------------------------------------------- Client
CurrentPeer == Len(cPeers)

Destroyed == {j \in 1..Len(cPeers) : cPeers[j].st = "destroyed"}

\* A joinRoom call makes two things, a peer and a timed promise.
ClientWork == Len(cPeers) + Len(cPeers) + Cardinality(Destroyed) + cLog.sends + Len(cReceived)

\* The offer peer j emits, as the JoinRoomRequest carries it.
OfferOf(j) == Stringify(j)

\* constructor: the relay socket is opened at once, with its data handler.
ClientInit ==
    /\ cSocket = "connecting"
    /\ roomJoined = Unresolved
    /\ cPeers = <<>>
    /\ cOnMessageReceived = Undefined
    /\ cMicrotasks = 0
    /\ cOut = {}
    /\ cReceived = <<>>
    /\ cLog = [sends |-> 0]

\* The relay socket connects; the Client registered no handler for it.
ClientSocketConnect ==
    /\ role \in ClientRoles
    /\ cMicrotasks = 0
    /\ cSocket = "connecting"
    /\ cSocket' = "open"
    /\ thrown' = "none"
    /\ UNCHANGED <<roomJoined, cPeers, cOnMessageReceived, cMicrotasks, cOut,
                   cReceived, cLog>>
    /\ UNCHANGED <<role, hostVars>>

\* peer.signal(answer): a destroyed peer takes no answer.
ApplyAnswer(peers, j, answer) ==
    IF peers[j].st = "destroyed" THEN peers
    ELSE [peers EXCEPT ![j].applied = Append(@, answer)]

\* The continuations of roomJoined.promise (lines 159-162), one per joinRoom
\* made so far, each applying the answer to this.peer as it is then.
RECURSIVE RunThens(_, _, _)
RunThens(peers, n, answer) ==
    IF n = 0 THEN peers
    ELSE RunThens(ApplyAnswer(peers, Len(peers), answer), n - 1, answer)

\* case SignalResponses.RoomJoined
ClientRoomJoined(p, env) == ManagedResolve(p, env.answer)

\* The cases of the Client's switch on decoded.type.
ClientHandles(type) == type \in {"RoomJoined", "RequestAccepted"}

\* The data handler of the relay socket.
ClientOnData(env) ==
    /\ role \in ClientRoles
    /\ cMicrotasks = 0
    /\ cSocket = "open"
    /\ roomJoined' = IF env.type = "RoomJoined"
                     THEN ClientRoomJoined(roomJoined, env) ELSE roomJoined
    /\ cPeers' = IF env.type = "RoomJoined" /\ roomJoined = Unresolved
                 THEN RunThens(cPeers, Len(cPeers), roomJoined')
                 ELSE cPeers
    /\ thrown' = IF ClientHandles(env.type) THEN "none" ELSE "ProtocolError"
    /\ UNCHANGED <<cSocket, cOnMessageReceived, cMicrotasks, cOut, cReceived, cLog>>
    /\ UNCHANGED <<role, hostVars>>

\* joinRoom(room): a new initiating Peer, a continuation on roomJoined and a
\* TimedPromise around the peer's connect event.
JoinRoom(room) ==
    /\ role \in ClientRoles
    /\ ClientWork + 1 < MaxClientWork
    /\ cPeers' = Append(cPeers,
                        [room |-> room, st |-> "new", applied |-> <<>>,
                         listeners |-> <<>>, timed |-> "pending",
                         connectAt |-> "never", sent |-> <<>>])
    /\ cMicrotasks' = IF roomJoined = Unresolved THEN cMicrotasks ELSE cMicrotasks + 1
    /\ thrown' = "none"
    /\ UNCHANGED <<cSocket, roomJoined, cOnMessageReceived, cOut, cReceived, cLog>>
    /\ UNCHANGED <<role, hostVars>>

\* A continuation registered on the already resolved roomJoined runs once
\* the calling code has returned.
ClientRunThen ==
    /\ role \in ClientRoles
    /\ cMicrotasks > 0
    /\ cMicrotasks' = cMicrotasks - 1
    /\ cPeers' = ApplyAnswer(cPeers, CurrentPeer, roomJoined)
    /\ thrown' = "none"
    /\ UNCHANGED <<cSocket, roomJoined, cOnMessageReceived, cOut, cReceived, cLog>>
    /\ UNCHANGED <<role, hostVars>>

\* The signal handler of peer j: JoinRoomRequest{offer, room} on the socket.
ClientPeerSignal(j) ==
    /\ role \in ClientRoles
    /\ cMicrotasks = 0
    /\ cPeers[j].st = "new"
    /\ cPeers' = [cPeers EXCEPT ![j].st = "offered"]
    /\ cOut' = cOut \cup {[type |-> "JoinRoom", offer |-> Stringify(OfferOf(j)),
                           room |-> cPeers[j].room, open |-> SocketSendOk(cSocket)]}
    /\ thrown' = IF SocketSendOk(cSocket) THEN "none" ELSE "SocketError"
    /\ UNCHANGED <<cSocket, roomJoined, cOnMessageReceived, cMicrotasks, cReceived, cLog>>
    /\ UNCHANGED <<role, hostVars>>

\* TimedPromise: the work's resolve() and the timer's reject settle a pending
\* promise; a settled one stays as it is.
TimedResolve(t) == IF t = "pending" THEN "resolved" ELSE t
TimedReject(t) == IF t = "pending" THEN "rejected" ELSE t

\* The connect handler joinRoom registered on peer j (lines 165-169):
\* this.peer.on('data', this.onMessageReceived), then resolve().
Mut_ClientConnected(peers, cb, j) ==
    LET fired == [peers EXCEPT ![j].st = "connected", ![j].connectAt = peers[j].timed]
    IN IF EmitterOnThrows(cb)
       THEN [peers |-> fired, thrown |-> "TypeError"]
       ELSE [peers |-> [k \in 1..Len(fired) |->
                          [fired[k] EXCEPT
                             !.listeners = IF k = Len(fired) THEN Append(@, cb) ELSE @,
                             !.timed = IF k = j THEN "resolved" ELSE @]],
             thrown |-> "none"]

ClientConnected(peers, cb, j) ==
    LET fired == [peers EXCEPT ![j].st = "connected", ![j].connectAt = peers[j].timed]
    IN IF EmitterOnThrows(cb)
       THEN [peers |-> fired, thrown |-> "TypeError"]
       ELSE [peers |-> [k \in 1..Len(fired) |->
                          [fired[k] EXCEPT
                             !.listeners = IF k = Len(fired) THEN Append(@, cb) ELSE @,
                             !.timed = IF k = j THEN TimedResolve(@) ELSE @]],
             thrown |-> "none"]

ClientPeerConnect(j) ==
    /\ role \in ClientRoles
    /\ cMicrotasks = 0
    /\ cPeers[j].st = "offered"
    /\ cPeers[j].applied # <<>>
    /\ LET r == ClientConnected(cPeers, cOnMessageReceived, j)
       IN /\ cPeers' = r.peers
          /\ thrown' = r.thrown
    /\ UNCHANGED <<cSocket, roomJoined, cOnMessageReceived, cMicrotasks, cOut,
                   cReceived, cLog>>
    /\ UNCHANGED <<role, hostVars>>

\* The 30-second timer of the TimedPromise of joinRoom call j.
ClientTimeout(j) ==
    /\ role \in ClientRoles
    /\ cMicrotasks = 0
    /\ cPeers[j].timed = "pending"
    /\ cPeers' = [cPeers EXCEPT ![j].timed = TimedReject(@)]
    /\ thrown' = "none"
    /\ UNCHANGED <<cSocket, roomJoined, cOnMessageReceived, cMicrotasks, cOut,
                   cReceived, cLog>>
    /\ UNCHANGED <<role, hostVars>>

\* Data arrives on peer j: every listener attached to it gets the raw data.
Deliveries(j, data) ==
    [i \in 1..Len(cPeers[j].listeners) |->
        [cb |-> cPeers[j].listeners[i], data |-> data, current |-> cOnMessageReceived]]

ClientPeerData(j, m) ==
    /\ role \in ClientRoles
    /\ cMicrotasks = 0
    /\ cPeers[j].st = "connected"
    /\ ClientWork < MaxClientWork
    /\ cPeers[j].listeners # <<>>
    /\ cReceived' = cReceived \o Deliveries(j, Utf8Encode(Stringify(m)))
    /\ thrown' = "none"
    /\ UNCHANGED <<cSocket, roomJoined, cPeers, cOnMessageReceived, cMicrotasks,
                   cOut, cLog>>
    /\ UNCHANGED <<role, hostVars>>

\* Data arrives on a connected peer nobody listens to: it is dropped.
ClientPeerDataDropped(j, m) ==
    /\ role \in ClientRoles
    /\ cMicrotasks = 0
    /\ cPeers[j].st = "connected"
    /\ cPeers[j].listeners = <<>>
    /\ thrown' = "none"
    /\ UNCHANGED <<cSocket, roomJoined, cPeers, cOnMessageReceived, cMicrotasks,
                   cOut, cReceived, cLog>>
    /\ UNCHANGED <<role, hostVars>>

\* listenForMessages(cb)
ClientListenForMessages(cb) ==
    /\ role \in ClientRoles
    /\ cOnMessageReceived' = cb
    /\ thrown' = "none"
    /\ UNCHANGED <<cSocket, roomJoined, cPeers, cMicrotasks, cOut, cReceived, cLog>>
    /\ UNCHANGED <<role, hostVars>>

\* send(message): this.peer.send(JSON.stringify(message)).
Mut_ClientSendResult(peers, m) ==
    IF Len(peers) = 0 \/ PeerSendThrows(peers[Len(peers)].st)
    THEN [peers |-> peers, thrown |-> "none"]
    ELSE [peers |-> [peers EXCEPT ![Len(peers)].sent = Append(@, Stringify(m))],
          thrown |-> "none"]

ClientSendResult(peers, m) ==
    IF Len(peers) = 0
    THEN [peers |-> peers, thrown |-> "TypeError"]
    ELSE IF PeerSendThrows(peers[Len(peers)].st)
         THEN [peers |-> peers, thrown |-> "PeerError"]
         ELSE [peers |-> [peers EXCEPT ![Len(peers)].sent = Append(@, Stringify(m))],
               thrown |-> "none"]

ClientSend(m) ==
    /\ role \in ClientRoles
    /\ ClientWork < MaxClientWork
    /\ LET r == ClientSendResult(cPeers, m)
       IN /\ cPeers' = r.peers
          /\ thrown' = r.thrown
          /\ cLog' = IF r.peers # cPeers THEN [cLog EXCEPT !.sends = @ + 1] ELSE cLog
    /\ UNCHANGED <<cSocket, roomJoined, cOnMessageReceived, cMicrotasks, cOut, cReceived>>
    /\ UNCHANGED <<role, hostVars>>

\* leaveRoom(): this.peer.destroy().
LeaveRoom ==
    /\ role \in ClientRoles
    /\ IF CurrentPeer = 0
       THEN /\ thrown' = "TypeError"
            /\ UNCHANGED cPeers
       ELSE /\ cPeers[CurrentPeer].st # "destroyed"
            /\ ClientWork < MaxClientWork
            /\ cPeers' = [cPeers EXCEPT ![CurrentPeer].st = "destroyed"]
            /\ thrown' = "none"
    /\ UNCHANGED <<cSocket, roomJoined, cOnMessageReceived, cMicrotasks, cOut,
                   cReceived, cLog>>
    /\ UNCHANGED <<role, hostVars>>

ClientNext ==
    \/ ClientSocketConnect
    \/ \E env \in RelayEnvelopes : ClientOnData(env)
    \/ \E room \in Rooms : JoinRoom(room)
    \/ ClientRunThen
    \/ \E j \in 1..Len(cPeers) : ClientPeerSignal(j)
    \/ \E j \in 1..Len(cPeers) : ClientPeerConnect(j)
    \/ \E j \in 1..Len(cPeers) : ClientTimeout(j)
    \/ \E j \in 1..Len(cPeers), m \in Messages : ClientPeerData(j, m)
    \/ \E j \in 1..Len(cPeers), m \in Messages : ClientPeerDataDropped(j, m)
    \/ \E cb \in ClientMessageCallbacks : ClientListenForMessages(cb)
    \/ \E m \in Messages : ClientSend(m)
    \/ LeaveRoom

\* A program constructs one controller: new Host(options) or new Client(options).
Init ==
    /\ role \in {"host", "client"}
    /\ HostInit
    /\ ClientInit
    /\ thrown = "none"

Next == HostNext \/ ClientNext

Spec == Init /\ [][Next]_vars

\* ------------------------------------------- a Host, a relay and a Client
\* One Host and one Client joined by the relay and the peer transport.  The
\* relay answers RoomCreate with a room, forwards a JoinRoom for that room
\* to the Host as a GuestRequest under the identifier it gives the guest,
\* and forwards the Host's AddToRoom to that guest as RoomJoined, each
\* envelope once.  The peer transport connects the two ends once the Host
\* has taken the offer and produced its answer and the Client has applied
\* that answer.
RelayRoom == "ABC123"
RelayClientId == "guest1"

\* The answer of a Host handshake, as text in an envelope.
AnswerText(a) == IF a = 1 THEN "A1" ELSE "A2"

PairInit ==
    /\ role = "pair"
    /\ HostInit
    /\ ClientInit
    /\ thrown = "none"

PairCreateRoom ==
    /\ Len(hSockets) = 0
    /\ CreateRoom

PairHostSocketConnect ==
    \E s \in 1..Len(hSockets) : HostSocketConnect(s)

RelayRoomCreated ==
    /\ RoomCreate \in hostOut
    /\ hLog.firstRoom = Unresolved
    /\ HostOnData(1, Envelope("RoomCreated", RelayRoom, "", "", ""))

PairListenForGuests ==
    /\ guestJoinedCallback = Undefined
    /\ \E cb \in GuestCallbacks : ListenForGuests(cb)

PairListenForMessages ==
    /\ cOnMessageReceived = Undefined
    /\ \E cb \in ClientMessageCallbacks : ClientListenForMessages(cb)

\* The Client joins the room the Host was given.
PairJoinRoom ==
    /\ Len(cPeers) = 0
    /\ roomCreated # Unresolved
    /\ JoinRoom(roomCreated)

PairClientPeerSignal ==
    \E j \in 1..Len(cPeers) : ClientPeerSignal(j)

\* A JoinRoom that went out on the open socket reaches the Host.
RelayGuestRequest ==
    \E e \in cOut :
        /\ e.type = "JoinRoom"
        /\ e.open
        /\ e.room = roomCreated
        /\ \A h \in 1..Len(handshakes) : handshakes[h].offer # e.offer
        /\ HostOnData(1, Envelope("GuestRequest", "", e.offer, RelayClientId, ""))

PairHostPeerSignal ==
    \E h \in 1..Len(handshakes) : HostPeerSignal(h)

\* An AddToRoom for the guest reaches the Client.
RelayRoomJoined ==
    \E e \in hostOut :
        /\ e.type = "AddToRoom"
        /\ e.client = RelayClientId
        /\ roomJoined = Unresolved
        /\ ClientOnData(Envelope("RoomJoined", "", "", "", AnswerText(e.answer)))

\* The peer channel is up: each end gets its connect event.
ChannelUp ==
    /\ Len(cPeers) > 0
    /\ cPeers[1].applied # <<>>
    /\ cPeers[1].st # "destroyed"

PairHostPeerConnect ==
    /\ ChannelUp
    /\ \E h \in 1..Len(handshakes) : HostPeerConnect(h)

PairClientPeerConnect ==
    /\ ChannelUp
    /\ \E j \in 1..Len(cPeers) : ClientPeerConnect(j)

PairTimeout ==
    \E j \in 1..Len(cPeers) : ClientTimeout(j)

PairNext ==
    \/ PairCreateRoom
    \/ PairHostSocketConnect
    \/ RelayRoomCreated
    \/ PairListenForGuests
    \/ PairListenForMessages
    \/ ClientSocketConnect
    \/ PairJoinRoom
    \/ PairClientPeerSignal
    \/ RelayGuestRequest
    \/ PairHostPeerSignal
    \/ RelayRoomJoined
    \/ PairHostPeerConnect
    \/ PairClientPeerConnect
    \/ PairTimeout

\* Every socket, relay and peer event that can happen does happen; the calls
\* of the two applications and the 30-second timer are under no obligation.
PairFairness ==
    /\ WF_vars(PairHostSocketConnect)
    /\ WF_vars(RelayRoomCreated)
    /\ WF_vars(ClientSocketConnect)
    /\ WF_vars(PairClientPeerSignal)
    /\ WF_vars(RelayGuestRequest)
    /\ WF_vars(PairHostPeerSignal)
    /\ WF_vars(RelayRoomJoined)
    /\ WF_vars(PairHostPeerConnect)
    /\ WF_vars(PairClientPeerConnect)

PairSpec == PairInit /\ [][PairNext]_vars /\ PairFairness

\* ------------------------------------------------------------ properties
Fired(h) == handshakes[h].st \in {"connected", "closed"}

DistinctGuests ==
    \A h1, h2 \in 1..Len(handshakes) :
        handshakes[h1].client = handshakes[h2].client => h1 = h2

\* C1: the promise createRoom returns is resolved exactly when a RoomCreated
\* envelope has been received, and its value is the room of the first one,
\* whatever envelopes (a second RoomCreated with another room included)
\* came after it.
C1_FirstRoomCreatedWins == roomCreated = hLog.firstRoom

C1_Witness ==
    /\ roomCreated = "ABC123"
    /\ hLog.lastRoom = "XYZ789"

\* The registry once every handshake has fired connect, and a sendToAll step.
C2_RegistryComplete ==
    (DistinctGuests /\ \A h \in 1..Len(handshakes) : Fired(h))
    => /\ Len(connections) = Len(handshakes)
       /\ MapKeys(connections) = {handshakes[h].client : h \in 1..Len(handshakes)}
       /\ \A i \in 1..Len(connections) :
              handshakes[connections[i].peer].client = connections[i].id

C2_SendToAllOnce ==
    \A m \in Messages :
        (/\ SendToAll(m)
         /\ DistinctGuests
         /\ \A h \in 1..Len(handshakes) : handshakes[h].st = "connected")
        => /\ thrown' = "none"
           /\ \A h \in 1..Len(handshakes) :
                  handshakes'[h].sent = Append(handshakes[h].sent, Stringify(m))

\* C2: with distinct client identifiers, once every handshake has fired
\* connect the registry holds one entry per handshake, keyed by its client
\* and mapped to its handle; and a sendToAll made while all of them are
\* connected puts exactly one copy of the message on every handle.
C2_AllGuestsRegisteredAndSent == [](C2_RegistryComplete) /\ [][C2_SendToAllOnce]_vars

C2_Witness ==
    /\ Len(handshakes) = 2
    /\ DistinctGuests
    /\ connections = <<[id |-> handshakes[2].client, peer |-> 2],
                       [id |-> handshakes[1].client, peer |-> 1]>>
    /\ \A h \in 1..2 : handshakes[h].sent = <<Stringify("m1")>>

\* A sendTo step, by whether the id is a key of the registry.
C3_SendToStep ==
    \A id \in ClientIds, m \in Messages :
        SendTo(id, m)
        => IF ~MapHas(connections, id)
           THEN thrown' = "UnknownClient" /\ UNCHANGED hostVars
           ELSE LET h == MapGet(connections, id)
                IN /\ handshakes[h].client = id
                   /\ thrown' # "UnknownClient"
                   /\ \A k \in 1..Len(handshakes) :
                          k # h => handshakes'[k] = handshakes[k]
                   /\ handshakes[h].st = "connected"
                      => /\ handshakes'[h].sent = Append(handshakes[h].sent, Stringify(m))
                         /\ thrown' = "none"
                   /\ UNCHANGED <<hSockets, roomCreated, connections, guestJoinedCallback,
                                  hOnMessageReceived, hostOut, hReceived>>

\* C3: sendTo with an id that is no key of the registry throws UnknownClient
\* and changes nothing of the Host; with a registered id nothing but that
\* id's handle is touched, and a connected handle gets exactly the message.
C3_SendToUnknownClientFails == [][C3_SendToStep]_vars

C3_Witness ==
    /\ thrown = "UnknownClient"
    /\ \E i \in 1..Len(connections) :
           /\ handshakes[connections[i].peer].st = "connected"
           /\ handshakes[connections[i].peer].sent # <<>>
\* A step of each role's relay data handler.
C5_HostStep ==
    \A s \in 1..Len(hSockets), env \in RelayEnvelopes :
        HostOnData(s, env)
        => IF env.type \in {"RoomCreated", "GuestRequest", "RequestAccepted"}
           THEN thrown' = "none"
           ELSE thrown' = "ProtocolError" /\ UNCHANGED hostVars

C5_ClientStep ==
    \A env \in RelayEnvelopes :
        ClientOnData(env)
        => IF env.type \in {"RoomJoined", "RequestAccepted"}
           THEN thrown' = "none"
           ELSE thrown' = "ProtocolError" /\ UNCHANGED clientVars

\* C5: a relay envelope whose discriminant the receiving role does not
\* handle throws (the switch's default) and changes nothing of the
\* controller: no promise is resolved, no handshake is created, the registry
\* stays as it is.  The Host handles RoomCreated, GuestRequest and
\* RequestAccepted, the Client RoomJoined and RequestAccepted, and those
\* never throw the protocol error.
C5_UnknownEnvelopeRaises == [][C5_HostStep /\ C5_ClientStep]_vars

C5_Witness ==
    /\ thrown = "ProtocolError"
    /\ \/ role = "host" /\ roomCreated # Unresolved /\ Len(connections) > 0
       \/ role = "client" /\ Len(cPeers) > 0

\* C6: every AddToRoom envelope the Host has sent carries the answer of a
\* handshake whose signal event has fired and the client identifier of the
\* GuestRequest that handshake was created for; every handshake that has
\* signalled has sent exactly that envelope.
C6_AnswerUnderOwnClient ==
    /\ \A e \in hostOut :
           e.type = "AddToRoom"
           => /\ e.answer \in 1..Len(handshakes)
              /\ handshakes[e.answer].st # "new"
              /\ e.client = handshakes[e.answer].client
    /\ \A h \in 1..Len(handshakes) :
           handshakes[h].st # "new"
           => [type |-> "AddToRoom", client |-> handshakes[h].client,
               answer |-> Answer(h)] \in hostOut

C6_Witness ==
    /\ Len(handshakes) = 2
    /\ handshakes[1].client # handshakes[2].client
    /\ handshakes[1].st = "signaled"
    /\ handshakes[2].st = "connected"
    /\ Cardinality({e \in hostOut : e.type = "AddToRoom"}) = 2

\* What each handshake has invoked so far, and what a connect step invokes.
C8_Invocations ==
    \A h \in 1..Len(handshakes) :
        /\ Len(handshakes[h].joined) <= 1
        /\ ~Fired(h) => handshakes[h].joined = <<>>
        /\ \A i \in 1..Len(handshakes[h].joined) :
               /\ handshakes[h].joined[i].client = handshakes[h].client
               /\ handshakes[h].joined[i].registered
               /\ handshakes[h].joined[i].cb \in GuestCallbacks

C8_ConnectStep ==
    \A h \in 1..Len(handshakes) :
        /\ HostPeerConnect(h) /\ guestJoinedCallback # Undefined
           => handshakes'[h].joined =
                  <<[cb |-> guestJoinedCallback, client |-> handshakes[h].client,
                     registered |-> TRUE]>>
        /\ HostPeerConnect(h) /\ guestJoinedCallback = Undefined
           => handshakes'[h].joined = <<>>
        /\ (Len(handshakes') >= h /\ handshakes'[h].joined # handshakes[h].joined)
           => HostPeerConnect(h)

C10_ConnectedGuestForwards ==
    \A h \in 1..Len(handshakes) :
        Fired(h) => MapHas(connections, handshakes[h].client) /\ handshakes[h].hasData
\* C4 (as claimed): the promise of a joinRoom call is resolved when the
\* peer's connect event fired while the timer had not, and it is rejected
\* only when the timer fired with no connect before it.
C4_JoinRoomSettlesByFirstEvent ==
    \A j \in 1..Len(cPeers) :
        /\ cPeers[j].connectAt = "pending" => cPeers[j].timed = "resolved"
        /\ cPeers[j].timed = "rejected" => cPeers[j].connectAt # "pending"

\* A send step taken while this.peer is not connected.
C7_SendStep ==
    \A m \in Messages :
        (ClientSend(m) /\ (CurrentPeer = 0 \/ cPeers[CurrentPeer].st # "connected"))
        => /\ thrown' \in {"TypeError", "PeerError"}
           /\ CurrentPeer = 0 => thrown' = "TypeError"
           /\ UNCHANGED clientVars

\* C7: send called while this.peer is not connected (no joinRoom yet, or a
\* handshake whose connect has not fired) throws, and no message goes out
\* on any peer channel.
C7_SendBeforeConnectedFails == [][C7_SendStep]_vars

C7_Witness ==
    /\ thrown = "PeerError"
    /\ Len(cPeers) = 1
    /\ cPeers[1].st = "offered"
    /\ cPeers[1].applied # <<>>
    /\ cPeers[1].sent = <<>>

\* C9 (as claimed): a message that arrives on the peer channel is delivered
\* to the callback listenForMessages registered most recently.
C9_DeliveredToLatestCallback ==
    \A i \in 1..Len(cReceived) : cReceived[i].cb = cReceived[i].current

\* C11: every entry of the registry is keyed by the client identifier of a
\* handshake whose connect event has fired and maps to that handshake's
\* handle; a handle that has only taken an offer or emitted its answer is
\* not the value of any entry.
C11_RegistryHoldsConnectedHandles ==
    /\ \A i \in 1..Len(connections) :
           /\ connections[i].peer \in 1..Len(handshakes)
           /\ Fired(connections[i].peer)
           /\ handshakes[connections[i].peer].client = connections[i].id
    /\ \A h \in 1..Len(handshakes) :
           handshakes[h].st \in {"new", "signaled"}
           => \A i \in 1..Len(connections) : connections[i].peer # h

C11_Witness ==
    /\ Len(handshakes) = 3
    /\ handshakes[1].st = "signaled"
    /\ handshakes[2].st = "connected"
    /\ handshakes[3].st = "new"
    /\ handshakes[1].client = handshakes[2].client
    /\ connections = <<[id |-> handshakes[2].client, peer |-> 2]>>

\* A step of the Host, as the registry sees it.
C12_RegistryStep ==
    /\ connections' # connections
       => \E h \in 1..Len(handshakes) : HostPeerConnect(h)
    /\ (\/ CreateRoom
        \/ CloseRoom
        \/ \E cb \in GuestCallbacks : ListenForGuests(cb)
        \/ \E cb \in HostMessageCallbacks : HostListenForMessages(cb)
        \/ \E id \in ClientIds, m \in Messages : SendTo(id, m)
        \/ \E m \in Messages : SendToAll(m)
        \/ \E s \in 1..Len(hSockets), env \in RelayEnvelopes : HostOnData(s, env)
        \/ \E h \in 1..Len(handshakes), m \in Messages : HostPeerData(h, m)
        \/ \E h \in 1..Len(handshakes) : HostPeerClose(h))
       => connections' = connections
    /\ MapKeys(connections) \subseteq MapKeys(connections')
    /\ Len(connections') >= Len(connections)

\* C12: only the connect event of a guest handshake changes the registry;
\* createRoom, closeRoom, the two listenFor calls, sendTo, sendToAll, relay
\* envelopes, inbound peer data and a peer channel going away leave it as it
\* is, and no step takes an identifier out of it.
C12_RegistryOnlyGrows == [][C12_RegistryStep]_vars

C12_Witness ==
    /\ hSockets = <<"destroyed">>
    /\ Len(handshakes) = 1
    /\ handshakes[1].st = "closed"
    /\ handshakes[1].sent # <<>>
    /\ connections = <<[id |-> handshakes[1].client, peer |-> 1]>>

\* The connect event of a handshake whose joinRoom promise was already
\* rejected by the timer, and any step on a settled promise.
C13_LateConnectStep ==
    \A j \in 1..Len(cPeers) :
        (ClientPeerConnect(j) /\ cPeers[j].timed = "rejected")
        => /\ cPeers'[j].timed = "rejected"
           /\ cPeers'[j].st = "connected"
           /\ IF cOnMessageReceived # Undefined
              THEN /\ thrown' = "none"
                   /\ cPeers'[CurrentPeer].listeners =
                          Append(cPeers[CurrentPeer].listeners, cOnMessageReceived)
              ELSE /\ thrown' = "TypeError"
                   /\ cPeers'[CurrentPeer].listeners = cPeers[CurrentPeer].listeners

C13_SettledStays ==
    \A j \in 1..Len(cPeers) :
        cPeers[j].timed # "pending" => cPeers'[j].timed = cPeers[j].timed

\* C13: a joinRoom promise settles at most once, so a connect event that
\* fires after the timer rejected it leaves it rejected; the connect handler
\* runs all the same and attaches this.onMessageReceived as a data listener
\* on this.peer, changing the Client's peer after the Timeout was reported
\* (when no message callback is set there is nothing to attach and the
\* handler ends in a TypeError).
C13_LateConnectKeepsTimeout == [][C13_LateConnectStep /\ C13_SettledStays]_vars

C13_Witness ==
    /\ Len(cPeers) = 1
    /\ cPeers[1].timed = "rejected"
    /\ cPeers[1].connectAt = "rejected"
    /\ cPeers[1].st = "connected"
    /\ cPeers[1].listeners # <<>>

\* C14 (as claimed): a handshake has an answer applied only after the
\* JoinRoom envelope carrying its offer was sent.
C14_AnswerAfterOwnJoinRoom ==
    \A j \in 1..Len(cPeers) :
        cPeers[j].applied # <<>>
        => \E e \in cOut : e.type = "JoinRoom" /\ e.offer = Stringify(OfferOf(j))

\* C15 (as claimed): every JoinRoom envelope the Client handed to its relay
\* socket was handed over after that socket's connect event, and carries the
\* room of a joinRoom call.
C15_JoinRoomAfterRelayConnect ==
    \A e \in cOut :
        e.type = "JoinRoom"
        => /\ e.open
           /\ \E j \in 1..Len(cPeers) :
                  e.offer = Stringify(OfferOf(j)) /\ e.room = cPeers[j].room

\* The RoomCreate envelope and the promise of createRoom, in a state and in
\* a step.
C16_RoomCreateState ==
    /\ RoomCreate \in hostOut => \E s \in 1..Len(hSockets) : hSockets[s] # "connecting"
    /\ (\E s \in 1..Len(hSockets) : hSockets[s] = "open") => RoomCreate \in hostOut
    /\ hLog.firstRoom # Unresolved => RoomCreate \in hostOut
    /\ roomCreated \in {Unresolved} \cup Rooms
    /\ hLog.firstRoom = Unresolved => roomCreated = Unresolved

C16_RoomCreateStep ==
    /\ (RoomCreate \in hostOut' /\ RoomCreate \notin hostOut)
       => \E s \in 1..Len(hSockets) : HostSocketConnect(s)
    /\ \A s \in 1..Len(hSockets) :
           HostSocketConnect(s)
           => /\ RoomCreate \in hostOut'
              /\ s = CurrentSocket => thrown' = "none"
    /\ roomCreated' # roomCreated
       => /\ roomCreated = Unresolved
          /\ \E s \in 1..Len(hSockets), r \in Rooms :
                 /\ HostOnData(s, Envelope("RoomCreated", r, "", "", ""))
                 /\ roomCreated' = r

\* C16: the Host hands RoomCreate to its relay socket in the connect handler
\* of a socket createRoom opened and nowhere else, so never before a relay
\* connect and always before a RoomCreated can arrive on an open socket;
\* the promise of createRoom is pending or resolved with a room, never
\* failed, and it stays pending in every state reached without a
\* RoomCreated envelope, whatever else happens and however long it takes.
C16_RoomCreateOnConnectNoTimeout == [](C16_RoomCreateState) /\ [][C16_RoomCreateStep]_vars

C16_Witness ==
    /\ hSockets = <<"open">>
    /\ RoomCreate \in hostOut
    /\ roomCreated = Unresolved
    /\ Len(connections) = 1
    /\ thrown = "ProtocolError"

\* The relay connection is torn down; a closeRoom step; the steps that
\* follow one.
TornDown == CurrentSocket > 0 /\ hSockets[CurrentSocket] = "destroyed"

C17_CloseRoomStep ==
    CloseRoom
    => /\ UNCHANGED <<roomCreated, handshakes, connections, guestJoinedCallback,
                      hOnMessageReceived, hostOut, hReceived, hLog>>
       /\ Len(hSockets') = Len(hSockets)
       /\ \A s \in 1..Len(hSockets) :
              hSockets'[s] = IF s = CurrentSocket THEN "destroyed" ELSE hSockets[s]

C17_AfterCloseRoomStep ==
    TornDown
    => /\ \A id \in ClientIds, m \in Messages :
              (/\ SendTo(id, m)
               /\ MapHas(connections, id)
               /\ handshakes[MapGet(connections, id)].st = "connected")
              => /\ thrown' = "none"
                 /\ handshakes'[MapGet(connections, id)].sent =
                        Append(handshakes[MapGet(connections, id)].sent, Stringify(m))
       /\ \A m \in Messages :
              (/\ SendToAll(m)
               /\ \A i \in 1..Len(connections) :
                      handshakes[connections[i].peer].st = "connected")
              => /\ thrown' = "none"
                 /\ \A i \in 1..Len(connections) :
                        handshakes'[connections[i].peer].sent =
                            Append(handshakes[connections[i].peer].sent, Stringify(m))
       /\ \A h \in 1..Len(handshakes) :
              HostPeerConnect(h)
              => /\ MapHas(connections', handshakes[h].client)
                 /\ MapGet(connections', handshakes[h].client) = h
                 /\ guestJoinedCallback # Undefined
                    => handshakes'[h].joined =
                           <<[cb |-> guestJoinedCallback, client |-> handshakes[h].client,
                              registered |-> TRUE]>>
       /\ \A h \in 1..Len(handshakes) :
              HostPeerSignal(h)
              => /\ AddToRoom(h) \in hostOut'
                 /\ thrown' = "SocketError"

\* C17: closeRoom destroys this.socket and changes nothing else of the Host:
\* the registry, every peer handle and both callbacks stay as they were.
\* With the relay connection torn down, sendTo and sendToAll still put the
\* message on the registered connected handles, a handshake whose connect
\* fires is still registered and announced to the guest-joined callback, and
\* a handshake whose signal fires still hands AddToRoom to the destroyed
\* socket, which throws.
C17_CloseRoomOnlyRelay == [][C17_CloseRoomStep /\ C17_AfterCloseRoomStep]_vars

C17_Witness ==
    /\ hSockets = <<"destroyed">>
    /\ Len(handshakes) = 2
    /\ handshakes[1].st = "connected"
    /\ handshakes[1].joined # <<>>
    /\ handshakes[1].sent # <<>>
    /\ MapHas(connections, handshakes[1].client)
    /\ handshakes[2].st = "signaled"
    /\ thrown = "SocketError"

\* An inbound message on a connected handle of a guest that is in the
\* registry, arriving while a message callback is set.
C18_InboundStep ==
    \A h \in 1..Len(handshakes), m \in Messages :
        (/\ HostPeerData(h, m)
         /\ MapHas(connections, handshakes[h].client)
         /\ hOnMessageReceived # Undefined)
        => hReceived' = Append(hReceived, [cb |-> hOnMessageReceived,
                                           message |-> Stringify(m), from |-> h])

\* C18 (as claimed): every inbound application message from a registered
\* guest invokes the message callback registered at that moment exactly
\* once, with the decoded payload.
C18_EveryInboundDeliveredOnce == [][C18_InboundStep]_vars

\* The registry's keys are unique; what a connect, a send and an inbound
\* message do when a client identifier is, or comes to be, registered twice.
C20_UniqueKeys ==
    \A i, k \in 1..Len(connections) : connections[i].id = connections[k].id => i = k

C20_ConnectStep ==
    \A h \in 1..Len(handshakes) :
        HostPeerConnect(h)
        => LET client == handshakes[h].client
           IN /\ MapGet(connections', client) = h
              /\ MapKeys(connections') = MapKeys(connections) \cup {client}
              /\ Len(connections') =
                     IF MapHas(connections, client)
                     THEN Len(connections) ELSE Len(connections) + 1
              /\ \A i \in 1..Len(connections) :
                     connections[i].id # client => connections'[i] = connections[i]
              /\ \A k \in 1..Len(handshakes) : k # h => handshakes'[k] = handshakes[k]
              /\ guestJoinedCallback # Undefined
                 => handshakes'[h].joined =
                        <<[cb |-> guestJoinedCallback, client |-> client,
                           registered |-> TRUE]>>

C20_SendStep ==
    LET registered == {connections[i].peer : i \in 1..Len(connections)}
    IN ((\E id \in ClientIds, m \in Messages : SendTo(id, m))
        \/ (\E m \in Messages : SendToAll(m)))
       => \A k \in 1..Len(handshakes) :
              k \notin registered => handshakes'[k] = handshakes[k]

C20_ReplacedForwardsStep ==
    \A h \in 1..Len(handshakes), m \in Messages :
        (/\ HostPeerData(h, m)
         /\ \E i \in 1..Len(connections) :
                connections[i].id = handshakes[h].client /\ connections[i].peer # h
         /\ handshakes[h].joined # <<>>
         /\ hOnMessageReceived # Undefined)
        => hReceived' = Append(hReceived, [cb |-> hOnMessageReceived,
                                           message |-> Stringify(m), from |-> h])

\* C20: the registry never holds two entries for one client identifier.  A
\* connect for an identifier already registered replaces the handle by the
\* one that connected last and leaves every other entry and the replaced
\* handle itself as they are; each of the two connects invokes the
\* guest-joined callback with the identifier; sendTo and sendToAll touch
\* registered handles only, so never the replaced one; and the replaced
\* handle, still connected, keeps forwarding its inbound messages to the
\* message callback.
C20_DuplicateIdReplaces ==
    [](C20_UniqueKeys)
    /\ [][C20_ConnectStep /\ C20_SendStep /\ C20_ReplacedForwardsStep]_vars

C20_Witness ==
    /\ Len(handshakes) = 2
    /\ handshakes[1].client = handshakes[2].client
    /\ handshakes[1].st = "connected" /\ handshakes[2].st = "connected"
    /\ Len(handshakes[1].joined) = 1 /\ Len(handshakes[2].joined) = 1
    /\ connections = <<[id |-> handshakes[1].client, peer |-> 1]>>
    /\ handshakes[1].sent = <<Stringify("m1")>>
    /\ handshakes[2].sent = <<>>

\* The stations of a join, for the Client's handshake and the guest the
\* relay made of it.
JoinCalled == Len(cPeers) > 0

JoinRoomSent ==
    \E e \in cOut : e.type = "JoinRoom" /\ e.open /\ e.room = roomCreated

AddToRoomSent ==
    \E e \in hostOut : e.type = "AddToRoom" /\ e.client = RelayClientId

AnswerApplied == JoinCalled /\ cPeers[1].applied # <<>>

ConnectedInTime == JoinCalled /\ cPeers[1].connectAt = "pending"

JoinResolved == JoinCalled /\ cPeers[1].timed = "resolved"

\* C19 (as claimed): once the Client has called joinRoom with the Host's
\* room, the JoinRoom envelope is eventually sent, the Host eventually
\* answers with AddToRoom for that client, the Client eventually applies the
\* answer, and when the peer's connect event fires before the timer the
\* promise of joinRoom is eventually resolved and the registry eventually
\* holds the client.
C19_JoinCompletes ==
    /\ JoinCalled ~> JoinRoomSent
    /\ JoinCalled ~> AddToRoomSent
    /\ JoinCalled ~> AnswerApplied
    /\ ConnectedInTime ~> JoinResolved
    /\ ConnectedInTime ~> MapHas(connections, RelayClientId)
====
